---- MODULE Spec2Model ----
(***************************************************************************)
(* A model of lib/object-utils.js: the utilities that derive line          *)
(* coverage, summarize file coverage objects, merge file coverage objects  *)
(* and summaries, and convert a coverage object to the yuitest format.     *)
(*                                                                         *)
(* JavaScript objects are functions from keys to values; an object with    *)
(* identity (a file coverage object that is updated in place) lives in     *)
(* `heap` under an address.  Percentages are kept in hundredths            *)
(* (33.33 is 3333), so that every number of the model is an integer.       *)
(***************************************************************************)
EXTENDS Integers, Sequences, FiniteSets, TLC

VARIABLES
    heap,       \* address -> file coverage object (the objects that exist)
    coverage,   \* the coverage object: file path -> address
    pre,        \* the heap as it was when the last call started
    call        \* the last call: its name, arguments, result, whether it threw

vars == <<heap, coverage, pre, call>>

(***************************************************************************)
(* Bounds of the model.                                                    *)
(***************************************************************************)
MaxStmts == 2      \* statements (functions) of an argument of SpecCalls
MaxCount == 1      \* execution counts of the files of Spec: 0..MaxCount
MaxCallCount == 2  \* execution counts of the arguments of SpecCalls
MaxArms == 3       \* arms of a branch
MaxMerges == 1     \* file coverage objects created by mergeFileCoverage
MaxArgs == 3       \* arguments of one mergeSummaryObjects call
MaxTotal == 12     \* percent(covered, total) is called for total <= MaxTotal

(***************************************************************************)
(* JavaScript values that are not counts.                                  *)
(***************************************************************************)
NaN == -1          \* undefined + n, and anything + NaN
Null == -2         \* what JSON.stringify makes of NaN
Unknown == -3      \* the literal 'Unknown' of a blank summary's pct

Undefined == [type |-> "undefined"]

\* ToNumber of a counter: null counts as 0
ToNumber(x) == IF x = Null THEN 0 ELSE x

\* a + b of `a += b`
Plus(a, b) == IF a = NaN \/ b = NaN THEN NaN ELSE ToNumber(a) + ToNumber(b)

\* a < b, which is false when either side is NaN
LessThan(a, b) == a # NaN /\ b # NaN /\ ToNumber(a) < ToNumber(b)

\* `if (x)` for a counter: 0, NaN and null are falsy
Truthy(x) == x # NaN /\ x # Null /\ x # 0

\* Object.keys of an object whose keys are integers: ascending order
RECURSIVE Ascending(_)
Ascending(S) ==
    IF S = {} THEN <<>>
    ELSE LET m == CHOOSE x \in S : \A y \in S : x <= y
         IN  <<m>> \o Ascending(S \ {m})

ObjectKeys(o) == Ascending(DOMAIN o)

\* Object.keys of a coverage object: its paths in insertion order
Paths == <<"a.js", "b.js">>

CoverageKeys(cov) == SelectSeq(Paths, LAMBDA p : p \in DOMAIN cov)

\* o[k] = v
Put(o, k, v) == [x \in DOMAIN o \cup {k} |-> IF x = k THEN v ELSE o[x]]

\* delete o[k]
Delete(o, k) == [x \in DOMAIN o \ {k} |-> o[x]]

(***************************************************************************)
(* percent                                                                 *)
(***************************************************************************)
\* tmp = 1000 * 100 * covered / total + 5 is the fraction tmpNum / total;
\* Math.floor(tmp / 10) / 100 in hundredths is the floor of tmpNum / (10 * total)
percentTruncating(covered, total) ==
    IF total > 0 THEN (1000 * 100 * covered) \div (10 * total) ELSE 10000

percent(covered, total) ==
    IF total > 0
    THEN LET tmpNum == 1000 * 100 * covered + 5 * total
         IN  tmpNum \div (10 * total)
    ELSE 10000

(***************************************************************************)
(* addDerivedInfoForFile, addDerivedInfo, removeDerivedInfo                *)
(***************************************************************************)
\* the forEach callback over the statement ids `keys`, filling lineMap; it
\* throws a TypeError at the first id that statementMap does not have
RECURSIVE forEachStatement(_, _, _, _)
forEachStatement(statementMap, statements, keys, lineMap) ==
    IF keys = <<>> THEN [lineMap |-> lineMap, threw |-> FALSE]
    ELSE LET st == Head(keys)
         IN  IF st \notin DOMAIN statementMap
             THEN [lineMap |-> lineMap, threw |-> TRUE]
             ELSE LET line == statementMap[st].start.line
                      count == statements[st]
                  IN  forEachStatement(statementMap, statements, Tail(keys),
                          IF line \notin DOMAIN lineMap \/ LessThan(lineMap[line], count)
                          THEN Put(lineMap, line, count)
                          ELSE lineMap)

\* a callback that keeps the count of the last statement of a line
RECURSIVE forEachStatementLastWins(_, _, _, _)
forEachStatementLastWins(statementMap, statements, keys, lineMap) ==
    IF keys = <<>> THEN [lineMap |-> lineMap, threw |-> FALSE]
    ELSE LET st == Head(keys)
         IN  IF st \notin DOMAIN statementMap
             THEN [lineMap |-> lineMap, threw |-> TRUE]
             ELSE forEachStatementLastWins(statementMap, statements, Tail(keys),
                      Put(lineMap, statementMap[st].start.line, statements[st]))

addDerivedInfoForFileLastWins(fileCoverage) ==
    IF "l" \notin DOMAIN fileCoverage
    THEN LET r == forEachStatementLastWins(fileCoverage.statementMap, fileCoverage.s,
                                           ObjectKeys(fileCoverage.s), <<>>)
         IN  [file |-> Put(fileCoverage, "l", r.lineMap), threw |-> r.threw]
    ELSE [file |-> fileCoverage, threw |-> FALSE]

\* a projector that derives the lines again although they are present
addDerivedInfoForFileRecomputing(fileCoverage) ==
    LET r == forEachStatement(fileCoverage.statementMap, fileCoverage.s,
                              ObjectKeys(fileCoverage.s), <<>>)
    IN  [file |-> Put(fileCoverage, "l", r.lineMap), threw |-> r.threw]

\* the file coverage object after the call, and whether the call threw
addDerivedInfoForFile(fileCoverage) ==
    IF "l" \notin DOMAIN fileCoverage
    THEN LET r == forEachStatement(fileCoverage.statementMap, fileCoverage.s,
                                   ObjectKeys(fileCoverage.s), <<>>)
         IN  [file |-> Put(fileCoverage, "l", r.lineMap), threw |-> r.threw]
    ELSE [file |-> fileCoverage, threw |-> FALSE]

\* Object.keys(coverage).forEach over the paths `keys`: the heap after it
RECURSIVE forEachFile(_, _, _)
forEachFile(h, cov, keys) ==
    IF keys = <<>> THEN [heap |-> h, threw |-> FALSE]
    ELSE LET a == cov[Head(keys)]
             r == addDerivedInfoForFile(h[a])
             h2 == [h EXCEPT ![a] = r.file]
         IN  IF r.threw THEN [heap |-> h2, threw |-> TRUE]
             ELSE forEachFile(h2, cov, Tail(keys))

addDerivedInfo(h, cov) == forEachFile(h, cov, CoverageKeys(cov))

removeDerivedInfo(h, cov) ==
    [a \in DOMAIN h |->
        IF \E k \in DOMAIN cov : cov[k] = a THEN Delete(h[a], "l") ELSE h[a]]

(***************************************************************************)
(* computeSimpleTotals, computeBranchTotals, blankSummary,                 *)
(* summarizeFileCoverage                                                   *)
(***************************************************************************)
RECURSIVE simpleTotals(_, _, _)
simpleTotals(stats, keys, ret) ==
    IF keys = <<>> THEN ret
    ELSE simpleTotals(stats, Tail(keys),
            [total |-> ret.total + 1,
             covered |-> IF Truthy(stats[Head(keys)]) THEN ret.covered + 1
                         ELSE ret.covered])

computeSimpleTotals(fileCoverage, property) ==
    LET stats == fileCoverage[property]
        ret == simpleTotals(stats, ObjectKeys(stats), [total |-> 0, covered |-> 0])
    IN  [total |-> ret.total, covered |-> ret.covered,
         pct |-> percent(ret.covered, ret.total)]

\* branches.filter(function (num) { return num > 0; }).length
RECURSIVE filterLength(_)
filterLength(branches) ==
    IF branches = <<>> THEN 0
    ELSE (IF LessThan(0, Head(branches)) THEN 1 ELSE 0) + filterLength(Tail(branches))

RECURSIVE branchTotals(_, _, _)
branchTotals(stats, keys, ret) ==
    IF keys = <<>> THEN ret
    ELSE LET branches == stats[Head(keys)]
         IN  branchTotals(stats, Tail(keys),
                [total |-> ret.total + Len(branches),
                 covered |-> ret.covered + filterLength(branches)])

\* a branch aggregator that counts a branch as one entry, covered when any arm is
computeBranchTotalsPerBranch(fileCoverage) ==
    LET stats == fileCoverage.b
        hit == {k \in DOMAIN stats : filterLength(stats[k]) > 0}
    IN  [total |-> Cardinality(DOMAIN stats), covered |-> Cardinality(hit),
         pct |-> percent(Cardinality(hit), Cardinality(DOMAIN stats))]

computeBranchTotals(fileCoverage) ==
    LET stats == fileCoverage.b
        ret == branchTotals(stats, ObjectKeys(stats), [total |-> 0, covered |-> 0])
    IN  [total |-> ret.total, covered |-> ret.covered,
         pct |-> percent(ret.covered, ret.total)]

blankSummary ==
    [lines      |-> [total |-> 0, covered |-> 0, pct |-> Unknown],
     statements |-> [total |-> 0, covered |-> 0, pct |-> Unknown],
     functions  |-> [total |-> 0, covered |-> 0, pct |-> Unknown],
     branches   |-> [total |-> 0, covered |-> 0, pct |-> Unknown]]

\* a summarizer that removes the lines again when it has counted them
summarizeFileCoverageRemovingLines(fileCoverage) ==
    LET d == addDerivedInfoForFile(fileCoverage)
    IN  IF d.threw
        THEN [file |-> d.file, threw |-> TRUE, ret |-> Undefined]
        ELSE [file |-> Delete(d.file, "l"), threw |-> FALSE,
              ret |-> [blankSummary EXCEPT
                          !.lines = computeSimpleTotals(d.file, "l"),
                          !.functions = computeSimpleTotals(d.file, "f"),
                          !.statements = computeSimpleTotals(d.file, "s"),
                          !.branches = computeBranchTotals(d.file)]]

\* the file coverage object after the call, whether the call threw, and the
\* summary it returned (when it did not throw)
summarizeFileCoverage(fileCoverage) ==
    LET d == addDerivedInfoForFile(fileCoverage)
    IN  IF d.threw
        THEN [file |-> d.file, threw |-> TRUE, ret |-> Undefined]
        ELSE [file |-> d.file, threw |-> FALSE,
              ret |-> [blankSummary EXCEPT
                          !.lines = computeSimpleTotals(d.file, "l"),
                          !.functions = computeSimpleTotals(d.file, "f"),
                          !.statements = computeSimpleTotals(d.file, "s"),
                          !.branches = computeBranchTotals(d.file)]]

(***************************************************************************)
(* mergeFileCoverage                                                       *)
(***************************************************************************)
\* JSON.parse(JSON.stringify(x)) of a counter: NaN is written as null
JSONNumber(x) == IF x = NaN THEN Null ELSE x

\* JSON.parse(JSON.stringify(first)): a copy, by value, of every field
JSONCopy(first) ==
    [p \in DOMAIN first |->
        CASE p \in {"s", "f", "l"} ->
                [k \in DOMAIN first[p] |-> JSONNumber(first[p][k])]
          [] p = "b" ->
                [k \in DOMAIN first.b |->
                    [i \in DOMAIN first.b[k] |-> JSONNumber(first.b[k][i])]]
          [] OTHER -> first[p]]

\* keys.forEach(function (k) { counts[k] += other[k]; }); counts[k] is
\* undefined when counts has no k, and undefined + n is NaN
RECURSIVE addCounts(_, _, _)
addCounts(counts, other, keys) ==
    IF keys = <<>> THEN counts
    ELSE LET k == Head(keys)
         IN  addCounts(Put(counts, k, IF k \in DOMAIN counts
                                      THEN Plus(counts[k], other[k])
                                      ELSE NaN),
                       other, Tail(keys))

\* a merge that keeps the larger count instead of adding
RECURSIVE maxCounts(_, _, _)
maxCounts(counts, other, keys) ==
    IF keys = <<>> THEN counts
    ELSE LET k == Head(keys)
         IN  maxCounts(Put(counts, k, IF k \in DOMAIN counts
                                      THEN (IF LessThan(counts[k], other[k])
                                            THEN other[k] ELSE counts[k])
                                      ELSE NaN),
                       other, Tail(keys))

\* for (i = 0; i < retArray.length; i += 1) { retArray[i] += secondArray[i]; }
addArms(retArray, secondArray) ==
    [i \in DOMAIN retArray |->
        IF i \in DOMAIN secondArray THEN Plus(retArray[i], secondArray[i]) ELSE NaN]

\* the forEach over second.b; retArray.length throws a TypeError when ret.b
\* has no branch k
RECURSIVE addBranches(_, _, _)
addBranches(retB, secondB, keys) ==
    IF keys = <<>> THEN [b |-> retB, threw |-> FALSE]
    ELSE LET k == Head(keys)
         IN  IF k \notin DOMAIN retB THEN [b |-> retB, threw |-> TRUE]
             ELSE addBranches([retB EXCEPT ![k] = addArms(retB[k], secondB[k])],
                              secondB, Tail(keys))

\* a merge that leaves the derived lines of first in the result
mergeFileCoverageKeepingLines(first, second) ==
    LET ret == JSONCopy(first)
        br == addBranches(ret.b, second.b, ObjectKeys(second.b))
    IN  [ret |-> [ret EXCEPT !.s = addCounts(ret.s, second.s, ObjectKeys(second.s)),
                             !.f = addCounts(ret.f, second.f, ObjectKeys(second.f)),
                             !.b = br.b],
         threw |-> br.threw]

\* a merge that does not add the statement counts
mergeFileCoverageMaxStatements(first, second) ==
    LET ret == Delete(JSONCopy(first), "l")
        br == addBranches(ret.b, second.b, ObjectKeys(second.b))
    IN  [ret |-> [ret EXCEPT !.s = maxCounts(ret.s, second.s, ObjectKeys(second.s)),
                             !.f = addCounts(ret.f, second.f, ObjectKeys(second.f)),
                             !.b = br.b],
         threw |-> br.threw]

\* the object the call returns (when it does not throw)
mergeFileCoverage(first, second) ==
    LET ret == Delete(JSONCopy(first), "l")
        br == addBranches(ret.b, second.b, ObjectKeys(second.b))
    IN  [ret |-> [ret EXCEPT !.s = addCounts(ret.s, second.s, ObjectKeys(second.s)),
                             !.f = addCounts(ret.f, second.f, ObjectKeys(second.f)),
                             !.b = br.b],
         threw |-> br.threw]

(***************************************************************************)
(* mergeSummaryObjects                                                     *)
(***************************************************************************)
summaryKeys == {"lines", "statements", "branches", "functions"}

\* increment(obj): skipped when obj is falsy
increment(ret, obj) ==
    IF obj # Undefined
    THEN [key \in summaryKeys |->
            [ret[key] EXCEPT !.total = @ + obj[key].total,
                             !.covered = @ + obj[key].covered]]
    ELSE ret

RECURSIVE forEachArg(_, _)
forEachArg(ret, args) ==
    IF args = <<>> THEN ret ELSE forEachArg(increment(ret, Head(args)), Tail(args))

\* a summary merger that leaves the percentages of the blank summary
mergeSummaryObjectsKeepingPct(args) == forEachArg(blankSummary, args)

\* a summary merger that stops at the first absent argument
RECURSIVE untilAbsent(_, _)
untilAbsent(ret, args) ==
    IF args = <<>> \/ Head(args) = Undefined THEN ret
    ELSE untilAbsent(increment(ret, Head(args)), Tail(args))

mergeSummaryObjectsUntilAbsent(args) ==
    LET ret == untilAbsent(blankSummary, args)
    IN  [key \in summaryKeys |->
            [ret[key] EXCEPT !.pct = percent(ret[key].covered, ret[key].total)]]

mergeSummaryObjects(args) ==
    LET ret == forEachArg(blankSummary, args)
    IN  [key \in summaryKeys |->
            [ret[key] EXCEPT !.pct = percent(ret[key].covered, ret[key].total)]]

(***************************************************************************)
(* toYUICoverage                                                           *)
(***************************************************************************)
\* the forEach over the lines of a file
RECURSIVE yuiLines(_, _, _)
yuiLines(lines, keys, o) ==
    IF keys = <<>> THEN o
    ELSE LET k == Head(keys)
         IN  yuiLines(lines, Tail(keys),
                [o EXCEPT !.lines = Put(@, k, lines[k]),
                          !.coveredLines = @ + 1,
                          !.calledLines = IF LessThan(0, lines[k]) THEN @ + 1 ELSE @])

\* the forEach over the functions of a file; the key name + ':' + line is the
\* pair <<name, line>>
RECURSIVE yuiFunctions(_, _, _, _)
yuiFunctions(functions, fnMap, keys, o) ==
    IF keys = <<>> THEN [o |-> o, threw |-> FALSE]
    ELSE LET k == Head(keys)
         IN  IF k \notin DOMAIN fnMap THEN [o |-> o, threw |-> TRUE]
             ELSE yuiFunctions(functions, fnMap, Tail(keys),
                    [o EXCEPT !.functions = Put(@, <<fnMap[k].name, fnMap[k].line>>,
                                                functions[k]),
                              !.coveredFunctions = @ + 1,
                              !.calledFunctions =
                                  IF LessThan(0, functions[k]) THEN @ + 1 ELSE @])

yuiFile(fileCoverage) ==
    LET o == [lines |-> <<>>, calledLines |-> 0, coveredLines |-> 0,
              functions |-> <<>>, calledFunctions |-> 0, coveredFunctions |-> 0]
        withLines == yuiLines(fileCoverage.l, ObjectKeys(fileCoverage.l), o)
    IN  yuiFunctions(fileCoverage.f, fileCoverage.fnMap,
                     ObjectKeys(fileCoverage.f), withLines)

\* the heap after the call, whether it threw, and the object it returned
toYUICoverage(h, cov) ==
    LET d == addDerivedInfo(h, cov)
        files == [k \in DOMAIN cov |-> yuiFile(d.heap[cov[k]])]
    IN  IF d.threw \/ \E k \in DOMAIN cov : files[k].threw
        THEN [heap |-> d.heap, threw |-> TRUE, ret |-> Undefined]
        ELSE [heap |-> d.heap, threw |-> FALSE,
              ret |-> [k \in DOMAIN cov |-> files[k].o]]

(***************************************************************************)
(* The calls.  Each is the whole function: h and cov are the heap and the  *)
(* coverage object it is called on.                                        *)
(***************************************************************************)
\* an address that aliases first instead of naming a new object
ResultAddressAliasing(h, first) == first

\* the address of the object JSON.parse creates: one no object has yet
ResultAddress(h, first) == Cardinality(DOMAIN h) + 1

Call_addDerivedInfoForFile(h, cov, a) ==
    LET r == addDerivedInfoForFile(h[a])
    IN  /\ heap' = [h EXCEPT ![a] = r.file]
        /\ coverage' = cov
        /\ pre' = h
        /\ call' = [op |-> "addDerivedInfoForFile", file |-> a, threw |-> r.threw]

Call_addDerivedInfo(h, cov) ==
    LET r == addDerivedInfo(h, cov)
    IN  /\ heap' = r.heap
        /\ coverage' = cov
        /\ pre' = h
        /\ call' = [op |-> "addDerivedInfo", threw |-> r.threw]

Call_removeDerivedInfo(h, cov) ==
    /\ heap' = removeDerivedInfo(h, cov)
    /\ coverage' = cov
    /\ pre' = h
    /\ call' = [op |-> "removeDerivedInfo", threw |-> FALSE]

Call_summarizeFileCoverage(h, cov, a) ==
    LET r == summarizeFileCoverage(h[a])
    IN  /\ heap' = [h EXCEPT ![a] = r.file]
        /\ coverage' = cov
        /\ pre' = h
        /\ call' = [op |-> "summarizeFileCoverage", file |-> a,
                    threw |-> r.threw, ret |-> r.ret]

Call_mergeFileCoverage(h, cov, a, b) ==
    LET r == mergeFileCoverage(h[a], h[b])
        at == ResultAddress(h, a)
    IN  /\ heap' = IF r.threw THEN h ELSE Put(h, at, r.ret)
        /\ coverage' = cov
        /\ pre' = h
        /\ call' = [op |-> "mergeFileCoverage", first |-> a, second |-> b,
                    threw |-> r.threw, ret |-> IF r.threw THEN 0 ELSE at]

Call_toYUICoverage(h, cov) ==
    LET r == toYUICoverage(h, cov)
    IN  /\ heap' = r.heap
        /\ coverage' = cov
        /\ pre' = h
        /\ call' = [op |-> "toYUICoverage", threw |-> r.threw, ret |-> r.ret]

Call_percent(covered, total) ==
    /\ heap' = <<>>
    /\ coverage' = <<>>
    /\ pre' = <<>>
    /\ call' = [op |-> "percent", covered |-> covered, total |-> total,
                threw |-> FALSE, ret |-> percent(covered, total)]

Call_mergeSummaryObjects(args) ==
    /\ heap' = <<>>
    /\ coverage' = <<>>
    /\ pre' = <<>>
    /\ call' = [op |-> "mergeSummaryObjects", args |-> args,
                threw |-> FALSE, ret |-> mergeSummaryObjects(args)]

(***************************************************************************)
(* File coverage objects as an instrumenter produces them: statements and  *)
(* functions are numbered 1..n in source order, so start lines do not      *)
(* decrease; a fresh object has no l.                                      *)
(***************************************************************************)
StatementMapOf(lines) == [k \in DOMAIN lines |-> [start |-> [line |-> lines[k]]]]

FnMap(n) == [k \in 1..n |-> [name |-> "fn", line |-> k]]

\* the start lines of the statements of a file of n statements: the first
\* starts on line 1, each next one on the same line or on the next
StartLines(n) ==
    {m \in [1..n -> 1..n] :
        /\ m[1] = 1
        /\ \A i \in 1..(n - 1) : m[i + 1] \in {m[i], m[i] + 1}}

\* the files of the coverage object of Spec: one statement; two statements on
\* one line and a branch of three arms; two statements on two lines and two
\* branches.  s are the counts of the statements
CollectedFile(lines, s) ==
    [statementMap |-> StatementMapOf(lines), s |-> s,
     fnMap |-> FnMap(1), f |-> <<s[1]>>,
     b |-> IF Len(lines) = 1 THEN <<<<s[1], 0>>>>
           ELSE IF lines[2] = 1 THEN <<<<s[1], 0, s[2]>>>>
           ELSE <<<<s[1], 0>>, <<s[2]>>>>]

CollectedFiles ==
    {CollectedFile(lines, s) :
        lines \in {<<1>>}, s \in [DOMAIN <<1>> -> 0..MaxCount]}
    \cup
    {CollectedFile(lines, s) :
        lines \in {<<1, 1>>, <<1, 2>>}, s \in [DOMAIN <<1, 1>> -> 0..MaxCount]}

\* the arguments of the calls of SpecCalls
Counts == 0..MaxCallCount

\* files that differ in their statements, with counts of the set C
StatementFilesOver(C) ==
    UNION {
        {[statementMap |-> StatementMapOf(lines), s |-> s,
          fnMap |-> FnMap(1), f |-> <<s[1]>>, b |-> <<<<s[n], 0>>>>] :
            lines \in StartLines(n), s \in [1..n -> C]}
        : n \in 1..MaxStmts}

\* files that differ in their functions
FunctionFilesOver(C) ==
    UNION {
        {[statementMap |-> StatementMapOf(<<1>>), s |-> <<1>>,
          fnMap |-> FnMap(n), f |-> f, b |-> <<>>] :
            f \in [1..n -> C]}
        : n \in 1..MaxStmts}

\* files that differ in one branch, and files of two branches
BranchFilesOver(C) ==
    UNION {
        {[statementMap |-> StatementMapOf(<<1>>), s |-> <<1>>,
          fnMap |-> <<>>, f |-> <<>>, b |-> <<arms>>] :
            arms \in [1..n -> C]}
        : n \in 1..MaxArms}
    \cup
    {[statementMap |-> StatementMapOf(<<1>>), s |-> <<1>>,
      fnMap |-> <<>>, f |-> <<>>, b |-> <<<<x, 0>>, <<y>>>>] : x \in C, y \in C}

StatementFiles == StatementFilesOver(Counts)

FunctionFiles == FunctionFilesOver(Counts)

BranchFiles == BranchFilesOver(Counts)

\* the second arguments of the merges of SpecCalls: runs in which a statement,
\* function or arm ran MaxCallCount times or not at all
SecondFiles ==
    StatementFilesOver({0, MaxCallCount}) \cup FunctionFilesOver({0, MaxCallCount})
        \cup BranchFilesOver({0, MaxCallCount})

\* the start lines of the statements of a file
StartLinesOf(o) == {o.statementMap[k].start.line : k \in DOMAIN o.statementMap}

\* files that come with line counts: those of an earlier derivation, which the
\* counts of s need not agree with any more
StaleFiles ==
    {Put(o, "l", [line \in StartLinesOf(o) |-> c]) : o \in StatementFiles, c \in Counts}

SameShape(x, y) ==
    /\ DOMAIN x.s = DOMAIN y.s
    /\ DOMAIN x.f = DOMAIN y.f
    /\ DOMAIN x.b = DOMAIN y.b
    /\ \A k \in DOMAIN x.b : Len(x.b[k]) = Len(y.b[k])

\* summaries as the summarizer returns them
Metric(total, covered) ==
    [total |-> total, covered |-> covered, pct |-> percent(covered, total)]

Summaries ==
    {[lines |-> Metric(p[1], p[2]), statements |-> Metric(p[1] + 1, p[2]),
      functions |-> Metric(p[2], p[2] \div 2),
      branches |-> Metric(2 * p[1], p[1] + p[2])] :
        p \in {q \in (0..MaxStmts) \X (0..MaxStmts) : q[2] <= q[1]}}

ArgLists == UNION {[1..n -> Summaries \cup {Undefined}] : n \in 0..MaxArgs}

BothPaths == ("a.js" :> 1) @@ ("b.js" :> 2)

(***************************************************************************)
(* Spec: a coverage object of two files, and every call on it and on the   *)
(* results of merges.                                                      *)
(***************************************************************************)
Init ==
    /\ \E a \in CollectedFiles : heap = <<a, CollectedFile(<<1>>, <<1>>)>>
    /\ coverage = BothPaths
    /\ pre = heap
    /\ call = [op |-> "none", threw |-> FALSE]

Next ==
    \/ \E a \in DOMAIN heap : Call_addDerivedInfoForFile(heap, coverage, a)
    \/ Call_addDerivedInfo(heap, coverage)
    \/ Call_removeDerivedInfo(heap, coverage)
    \/ \E a \in DOMAIN heap : Call_summarizeFileCoverage(heap, coverage, a)
    \/ \E a \in DOMAIN heap, b \in DOMAIN heap :
          /\ Cardinality(DOMAIN heap) < Cardinality(DOMAIN coverage) + MaxMerges
          /\ Call_mergeFileCoverage(heap, coverage, a, b)
    \/ Call_toYUICoverage(heap, coverage)

Spec == Init /\ [][Next]_vars

(***************************************************************************)
(* SpecCalls: one call of one function on arguments of the sets above.     *)
(***************************************************************************)
InitCalls ==
    /\ heap = <<>>
    /\ coverage = <<>>
    /\ pre = <<>>
    /\ call = [op |-> "none", threw |-> FALSE]

\* no call was made yet
Idle == call.op = "none"

Test_percent ==
    /\ Idle
    /\ \E total \in 0..MaxTotal, covered \in 0..MaxTotal : Call_percent(covered, total)

Test_mergeSummaryObjects ==
    /\ Idle
    /\ \E args \in ArgLists : Call_mergeSummaryObjects(args)

Test_summarizeFileCoverage ==
    /\ Idle
    /\ \E a \in StatementFiles \cup FunctionFiles \cup BranchFiles \cup StaleFiles :
          Call_summarizeFileCoverage(<<a>>, "a.js" :> 1, 1)

Test_addDerivedInfoForFile ==
    /\ Idle
    /\ \E a \in StatementFiles \cup StaleFiles :
          Call_addDerivedInfoForFile(<<a>>, "a.js" :> 1, 1)

Test_addDerivedInfo ==
    /\ Idle
    /\ \E a \in StatementFiles \cup StaleFiles, s \in [1..2 -> 0..MaxCount] :
          \E b \in {CollectedFile(<<1, 1>>, s), Put(CollectedFile(<<1, 1>>, s), "l", <<0>>)} :
              Call_addDerivedInfo(<<a, b>>, BothPaths)

Test_mergeFileCoverage ==
    /\ Idle
    /\ \E a \in StatementFiles \cup FunctionFiles \cup BranchFiles, b \in SecondFiles :
          /\ SameShape(a, b)
          /\ Call_mergeFileCoverage(<<a, b>>, <<>>, 1, 2)

NextCalls ==
    \/ Test_percent
    \/ Test_mergeSummaryObjects
    \/ Test_summarizeFileCoverage
    \/ Test_addDerivedInfoForFile
    \/ Test_addDerivedInfo
    \/ Test_mergeFileCoverage

SpecCalls == InitCalls /\ [][NextCalls]_vars

(***************************************************************************)
(* The properties.                                                         *)
(***************************************************************************)
Max(S) == CHOOSE x \in S : \A y \in S : y <= x

\* the arms <<k, i>> of the branches of b
ArmsOf(b) == UNION {{<<k, i>> : i \in DOMAIN b[k]} : k \in DOMAIN b}

\* the sum of field `field` of category `key` over the summaries of args
RECURSIVE SumOf(_, _, _)
SumOf(args, key, field) ==
    IF args = <<>> THEN 0
    ELSE (IF Head(args) = Undefined THEN 0 ELSE Head(args)[key][field])
         + SumOf(Tail(args), key, field)

Permutation(args, p) == [i \in DOMAIN args |-> args[p[i]]]

\* the line counts of a file, as the glossary defines them
LinesAgree(o) ==
    /\ DOMAIN o.l = StartLinesOf(o)
    /\ \A line \in StartLinesOf(o) :
          o.l[line] = Max({o.s[k] : k \in {j \in DOMAIN o.statementMap :
                                             o.statementMap[j].start.line = line}})

\* C1: for two file coverage objects of the same shape, mergeFileCoverage returns
\* an object whose s, f and b counters are the sums of the counters of the two,
\* so the counters do not depend on the order of the arguments and none is
\* smaller than the counter of either argument
C1_MergeAddsCounters ==
    (call.op = "mergeFileCoverage" /\ SameShape(pre[call.first], pre[call.second]))
    => /\ ~call.threw
       /\ LET a == pre[call.first]
              b == pre[call.second]
              r == heap[call.ret]
              swapped == mergeFileCoverage(b, a).ret
          IN  /\ DOMAIN r.s = DOMAIN a.s /\ DOMAIN r.f = DOMAIN a.f
              /\ DOMAIN r.b = DOMAIN a.b
              /\ \A k \in DOMAIN a.s : r.s[k] = a.s[k] + b.s[k]
              /\ \A k \in DOMAIN a.f : r.f[k] = a.f[k] + b.f[k]
              /\ \A k \in DOMAIN a.b :
                    /\ Len(r.b[k]) = Len(a.b[k])
                    /\ \A i \in DOMAIN a.b[k] : r.b[k][i] = a.b[k][i] + b.b[k][i]
              /\ swapped.s = r.s /\ swapped.f = r.f /\ swapped.b = r.b
              /\ \A k \in DOMAIN a.s : r.s[k] >= a.s[k] /\ r.s[k] >= b.s[k]
              /\ \A k \in DOMAIN a.f : r.f[k] >= a.f[k] /\ r.f[k] >= b.f[k]
              /\ \A p \in ArmsOf(a.b) :
                    r.b[p[1]][p[2]] >= a.b[p[1]][p[2]] /\ r.b[p[1]][p[2]] >= b.b[p[1]][p[2]]

C1_Witness ==
    /\ call.op = "mergeFileCoverage" /\ ~call.threw
    /\ pre[call.first] # pre[call.second]
    /\ pre[call.first].s = <<1, 0>> /\ pre[call.second].s = <<2, 2>>
    /\ heap[call.ret].s = <<3, 2>>

\* C2: mergeFileCoverage changes no object that existed before the call, and the
\* object it returns is a new one, so that a later change to an object (the
\* derivation of its lines) is seen in no other object
C2_MergeChangesNoArgument ==
    /\ call.op = "mergeFileCoverage"
       => /\ \A a \in DOMAIN pre : a \in DOMAIN heap /\ heap[a] = pre[a]
          /\ ~call.threw => /\ call.ret \notin DOMAIN pre
                            /\ DOMAIN heap = DOMAIN pre \cup {call.ret}
    /\ call.op \in {"addDerivedInfoForFile", "summarizeFileCoverage"}
       => \A a \in DOMAIN pre \ {call.file} : heap[a] = pre[a]

C2_Witness ==
    /\ call.op = "mergeFileCoverage" /\ ~call.threw
    /\ call.first # call.second
    /\ "l" \in DOMAIN pre[call.first]
    /\ heap[call.ret].s # pre[call.first].s
    /\ heap[call.ret].b # pre[call.first].b
    /\ heap[call.first] = pre[call.first]

\* C3: the object mergeFileCoverage returns has no l, whichever of its arguments
\* had one
C3_MergedHasNoLines ==
    (call.op = "mergeFileCoverage" /\ ~call.threw) => "l" \notin DOMAIN heap[call.ret]

C3_Witness ==
    /\ call.op = "mergeFileCoverage" /\ ~call.threw
    /\ "l" \in DOMAIN pre[call.first] /\ "l" \in DOMAIN pre[call.second]
    /\ call.first # call.second
    /\ "l" \notin DOMAIN heap[call.ret]

\* C4: mergeSummaryObjects returns, in every category, the sums of total and of
\* covered over its non-absent arguments and the percent of these sums; the
\* result depends neither on the order of the arguments nor on their grouping
C4_SummariesAdd ==
    call.op = "mergeSummaryObjects"
    => LET args == call.args
           ret == call.ret
       IN  /\ ~call.threw
           /\ \A key \in summaryKeys :
                 /\ ret[key].total = SumOf(args, key, "total")
                 /\ ret[key].covered = SumOf(args, key, "covered")
                 /\ ret[key].pct = percent(SumOf(args, key, "covered"),
                                           SumOf(args, key, "total"))
           /\ \A p \in {q \in [DOMAIN args -> DOMAIN args] :
                          \A i, j \in DOMAIN args : q[i] = q[j] => i = j} :
                 mergeSummaryObjects(Permutation(args, p)) = ret
           /\ \A n \in 1..(Len(args) - 1) :
                 LET front == SubSeq(args, 1, n)
                     back == SubSeq(args, n + 1, Len(args))
                 IN  /\ mergeSummaryObjects(<<mergeSummaryObjects(front)>> \o back) = ret
                     /\ mergeSummaryObjects(front \o <<mergeSummaryObjects(back)>>) = ret

C4_Witness ==
    /\ call.op = "mergeSummaryObjects"
    /\ Len(call.args) = 3
    /\ call.args[1] # Undefined /\ call.args[1].lines.total = 2
    /\ call.args[2] = Undefined
    /\ call.args[3] # Undefined /\ call.args[3].lines.total = 1
    /\ call.args[3].lines.covered = 1
    /\ call.ret.lines.total = 3

\* C5, as the specification states it: mergeSummaryObjects called with no argument
\* returns a blank summary, with total 0, covered 0 and pct 'Unknown' in every
\* category
C5_NoArgumentsBlank ==
    (call.op = "mergeSummaryObjects" /\ call.args = <<>>)
    => \A key \in summaryKeys :
          /\ call.ret[key].total = 0
          /\ call.ret[key].covered = 0
          /\ call.ret[key].pct = Unknown

\* C5, amended: mergeSummaryObjects called with no argument returns total 0,
\* covered 0 and pct 100.00 in every category
C5_NoArgumentsFull ==
    (call.op = "mergeSummaryObjects" /\ call.args = <<>>)
    => \A key \in summaryKeys :
          /\ call.ret[key].total = 0
          /\ call.ret[key].covered = 0
          /\ call.ret[key].pct = 10000

C5_Witness ==
    /\ call.op = "mergeSummaryObjects" /\ call.args = <<>> /\ ~call.threw
    /\ DOMAIN call.ret = summaryKeys
\* C6: summarizeFileCoverage returns, for statements, functions and lines, the
\* number of entries as total and the number of entries with a count above 0 as
\* covered; for branches the number of arms and the number of arms with a count
\* above 0; in every category 0 <= covered <= total and pct is their percent.
\* For b = {br1: [1,0,2]}: total 3, covered 2, pct 66.67
C6_SummaryCounts ==
    /\ (call.op = "summarizeFileCoverage" /\ ~call.threw)
       => LET o == heap[call.file]
              ret == call.ret
              Simple(stats, m) ==
                  /\ m.total = Cardinality(DOMAIN stats)
                  /\ m.covered = Cardinality({k \in DOMAIN stats : stats[k] > 0})
                  /\ 0 <= m.covered /\ m.covered <= m.total
                  /\ m.pct = percent(m.covered, m.total)
          IN  /\ Simple(o.s, ret.statements)
              /\ Simple(o.f, ret.functions)
              /\ Simple(o.l, ret.lines)
              /\ ret.branches.total = Cardinality(ArmsOf(o.b))
              /\ ret.branches.covered =
                    Cardinality({p \in ArmsOf(o.b) : o.b[p[1]][p[2]] > 0})
              /\ 0 <= ret.branches.covered
              /\ ret.branches.covered <= ret.branches.total
              /\ ret.branches.pct = percent(ret.branches.covered, ret.branches.total)
    /\ computeBranchTotals([b |-> <<<<1, 0, 2>>>>])
          = [total |-> 3, covered |-> 2, pct |-> 6667]

C6_Witness ==
    /\ call.op = "summarizeFileCoverage" /\ ~call.threw
    /\ heap[call.file].b = <<<<1, 0, 2>>>>
    /\ call.ret.branches = [total |-> 3, covered |-> 2, pct |-> 6667]
    /\ call.ret.statements.total = 1

\* C7: percent(covered, total) is 100.00 when total is 0, and for total > 0 it is
\* covered / total * 100 rounded half-up to two decimal places (ret hundredths,
\* with ret <= 10000 * covered / total + 1/2 < ret + 1); percent(0,0) = 100.00,
\* percent(1,3) = 33.33, percent(2,3) = 66.67, percent(0,5) = 0.00, and the result
\* lies between 0.00 and 100.00 when covered <= total
C7_PercentRoundsHalfUp ==
    call.op = "percent"
    => LET c == call.covered
           n == call.total
           ret == call.ret
       IN  /\ n = 0 => ret = 10000
           /\ n > 0 => /\ 2 * n * ret <= 20000 * c + n
                       /\ 20000 * c + n < 2 * n * (ret + 1)
                       /\ ret = (100000 * c + 5 * n) \div (10 * n)
           /\ (c = 0 /\ n = 0) => ret = 10000
           /\ (c = 1 /\ n = 3) => ret = 3333
           /\ (c = 2 /\ n = 3) => ret = 6667
           /\ (c = 0 /\ n = 5) => ret = 0
           /\ c <= n => (0 <= ret /\ ret <= 10000)

C7_Witness ==
    /\ call.op = "percent" /\ call.covered = 2 /\ call.total = 3 /\ call.ret = 6667

\* C8: addDerivedInfoForFile leaves an object that has an l unchanged, whatever
\* its l holds; a second call leaves every object as the first call left it, and
\* so does a second addDerivedInfo of a coverage object
C8_DerivationIdempotent ==
    /\ call.op = "addDerivedInfoForFile"
       => /\ "l" \in DOMAIN pre[call.file] => heap = pre
          /\ addDerivedInfoForFile(heap[call.file]).file = heap[call.file]
    /\ call.op = "addDerivedInfo"
       => /\ addDerivedInfo(heap, coverage).heap = heap
          /\ \A a \in DOMAIN pre : "l" \in DOMAIN pre[a] => heap[a] = pre[a]

C8_Witness ==
    /\ call.op = "addDerivedInfoForFile" /\ ~call.threw
    /\ "l" \in DOMAIN pre[call.file]
    /\ ~LinesAgree(pre[call.file])
    /\ heap = pre

\* C9, as the specification states it: after summarizeFileCoverage(file) returns,
\* file has exactly the fields and values it had before the call
C9_SummarizeReadOnly ==
    (call.op = "summarizeFileCoverage" /\ ~call.threw)
    => heap[call.file] = pre[call.file]

\* C9, amended: after summarizeFileCoverage(file) returns, file has the fields and
\* values it had before the call, except that a file that had no l before the call
\* has the derived line counts as l after it
C9_SummarizeAddsLinesOnly ==
    (call.op = "summarizeFileCoverage" /\ ~call.threw)
    => /\ DOMAIN heap = DOMAIN pre
       /\ \A a \in DOMAIN pre \ {call.file} : heap[a] = pre[a]
       /\ "l" \in DOMAIN pre[call.file] => heap[call.file] = pre[call.file]
       /\ "l" \notin DOMAIN pre[call.file]
          => /\ Delete(heap[call.file], "l") = pre[call.file]
             /\ "l" \in DOMAIN heap[call.file]
             /\ LinesAgree(heap[call.file])

C9_Witness ==
    /\ call.op = "summarizeFileCoverage" /\ ~call.threw
    /\ "l" \notin DOMAIN pre[call.file]
    /\ "l" \in DOMAIN heap[call.file]
    /\ heap[call.file].l = <<1>>
    /\ heap[call.file].s = <<0, 1>>

====
